---- MODULE Spec2Model ----
(***************************************************************************)
(* eTOXlab PLS engine (src/src/pls.py): class pls with build (NIPALS),     *)
(* validateLOO, project, saveModel and loadModel, and the callers' arrays  *)
(* that the object aliases.                                                *)
(*                                                                         *)
(* Numbers.  The code computes in float64.  The model computes exactly, on *)
(* the values  (n/d)*sqrt(s)  with n, d, s integers, d > 0, s >= 1         *)
(* square-free, written <<n, d, s>>, plus NaN (numpy's result of 0/0,      *)
(* which the code does not trap).  Every value pls.py produces from        *)
(* integer data is of this form: the only irrational step is the           *)
(* normalisation w /= sqrt(w.w) and the final sqrt of the diagnostics.     *)
(***************************************************************************)
EXTENDS Integers, Sequences, FiniteSets, TLC

(***************************************************************************)
(* Exact arithmetic                                                        *)
(***************************************************************************)
\* python evaluates an expression once and names the result: F applied to
\* the value of v, resp. of u and v
Bind(v, F(_)) == CHOOSE r \in { F(x) : x \in {v} } : TRUE
Bind2(u, v, F(_, _)) == CHOOSE r \in { F(x, y) : x \in {u}, y \in {v} } : TRUE

NaN == <<0, 0, 0>>
\* a value outside the represented domain: x/0 with x # 0, or a sum of two
\* different irrationalities
Unrep == <<1, 0, 0>>
Zero == <<0, 1, 1>>
One == <<1, 1, 1>>

Special(a) == a[2] = 0
IsNaN(a) == a = NaN
Abs(n) == IF n < 0 THEN -n ELSE n

RECURSIVE GCD(_, _)
GCD(a, b) == IF b = 0 THEN a ELSE GCD(b, a % b)

\* the canonical form of (n/d)*sqrt(s), d # 0, s square-free
Num(n, d, s) ==
    Bind(<<n, d, s>>, LAMBDA q :
        IF q[1] = 0 THEN Zero
        ELSE Bind(GCD(Abs(q[1]), Abs(q[2])), LAMBDA g :
                 <<(IF q[2] < 0 THEN -q[1] ELSE q[1]) \div g, Abs(q[2]) \div g, q[3]>>))

Whole(k) == Num(k, 1, 1)

\* a number that is at least the square root of m, m < 2^31
RootBound(m) ==
    IF m < 100 THEN 10 ELSE IF m < 10000 THEN 100 ELSE IF m < 1000000 THEN 1000 ELSE 46340

\* m = q*q*r with r square-free, m >= 1: <<q, r>>
SqFree(m0) ==
    Bind(m0, LAMBDA m :
    Bind({k \in 1..RootBound(m) : m % (k * k) = 0}, LAMBDA qs :
    Bind(CHOOSE k \in qs : \A j \in qs : j <= k, LAMBDA q :
        <<q, m \div (q * q)>>)))

Pick(a, b) == IF a = Unrep \/ b = Unrep THEN Unrep ELSE NaN

\* (n1/d1)*(n2/d2) with the common factors cancelled before multiplying
Frac(n1, d1, n2, d2, s) ==
    Bind2(GCD(Abs(n1), d2), GCD(Abs(n2), d1), LAMBDA g1, g2 :
        Num((n1 \div g1) * (n2 \div g2), (d1 \div g2) * (d2 \div g1), s))

Mul(x, y) ==
    Bind2(x, y, LAMBDA a, b :
        IF Special(a) \/ Special(b) THEN Pick(a, b)
        ELSE IF a = Zero \/ b = Zero THEN Zero
        ELSE IF a[3] = b[3] THEN
             Bind(Frac(a[1], a[2], b[1], b[2], 1), LAMBDA m :
                 Frac(m[1], m[2], a[3], 1, 1))
        ELSE IF a[3] = 1 \/ b[3] = 1 THEN Frac(a[1], a[2], b[1], b[2], a[3] * b[3])
        ELSE Bind(SqFree(a[3] * b[3]), LAMBDA sf :
             Bind(Frac(a[1], a[2], b[1], b[2], sf[2]), LAMBDA m :
                 Frac(m[1], m[2], sf[1], 1, sf[2]))))

Neg(x) == Bind(x, LAMBDA a : IF Special(a) THEN a ELSE Num(-a[1], a[2], a[3]))

Add(x, y) ==
    Bind2(x, y, LAMBDA a, b :
        IF Special(a) \/ Special(b) THEN Pick(a, b)
        ELSE IF a = Zero THEN b
        ELSE IF b = Zero THEN a
        ELSE IF a[3] = b[3] THEN
             Bind(GCD(a[2], b[2]), LAMBDA g :
                 Num(a[1] * (b[2] \div g) + b[1] * (a[2] \div g),
                     (a[2] \div g) * b[2], a[3]))
        ELSE Unrep)

Sub(a, b) == Add(a, Neg(b))

\* numpy float division: 0/0 is nan, no exception is raised
Div(x, y) ==
    Bind2(x, y, LAMBDA a, b :
        IF Special(a) \/ Special(b) THEN Pick(a, b)
        ELSE IF b = Zero THEN (IF a = Zero THEN NaN ELSE Unrep)
        ELSE Mul(a, Num(b[2], b[1] * b[3], b[3])))

\* np.sqrt of a rational; sqrt of a negative number is nan
Sqrt(x) ==
    Bind(x, LAMBDA a :
        IF Special(a) THEN a
        ELSE IF a[3] # 1 THEN Unrep
        ELSE IF a[1] < 0 THEN NaN
        ELSE IF a = Zero THEN Zero
        ELSE Bind2(SqFree(a[1]), SqFree(a[2]), LAMBDA sn, sd :
                 Num(sn[1], sd[1] * sd[2], sn[2] * sd[2])))

Square(x) == Bind(x, LAMBDA a : Mul(a, a))

\* a > b on rationals; any comparison with nan is False
Gt(x, y) ==
    Bind2(x, y, LAMBDA a, b :
        IF Special(a) \/ Special(b) THEN FALSE
        ELSE a[1] * b[2] > b[1] * a[2])

(***************************************************************************)
(* numpy helpers on vectors (sequences of numbers) and matrices (sequences *)
(* of rows)                                                                *)
(***************************************************************************)
\* the sequence f as an explicit tuple
Vec(f) == <<>> \o f

RECURSIVE SumSeq(_)
SumSeq(u) ==
    Bind(u, LAMBDA v :
        IF v = <<>> THEN Zero
        ELSE Add(SumSeq(SubSeq(v, 1, Len(v) - 1)), v[Len(v)]))

dot(x, y) == Bind2(x, y, LAMBDA u, v : SumSeq(Vec([i \in 1..Len(u) |-> Mul(u[i], v[i])])))
mean(u) == Bind(u, LAMBDA v : Div(SumSeq(v), Whole(Len(v))))
Col(X, j) == Vec([i \in 1..Len(X) |-> X[i][j]])
VecSub(x, y) == Bind2(x, y, LAMBDA u, v : Vec([j \in 1..Len(u) |-> Sub(u[j], v[j])]))
VecScale(x, y) == Bind2(x, y, LAMBDA u, k : Vec([j \in 1..Len(u) |-> Mul(u[j], k)]))
zeros(n) == Vec([i \in 1..n |-> Zero])
delete(u, i) == Bind(u, LAMBDA v : SubSeq(v, 1, i - 1) \o SubSeq(v, i + 1, Len(v)))
IntVec(v) == Vec([j \in 1..Len(v) |-> Whole(v[j])])
IntMat(M) == Vec([i \in 1..Len(M) |-> IntVec(M[i])])

\* pls.center on a matrix: X - mean(X, axis=0), and the means
centerX(X0) ==
    Bind(X0, LAMBDA X :
    Bind(Vec([j \in 1..Len(X[1]) |-> mean(Col(X, j))]), LAMBDA mu :
        [X |-> Vec([i \in 1..Len(X) |-> VecSub(X[i], mu)]), mu |-> mu]))

\* pls.center on a vector
centerY(Y0) ==
    Bind(Y0, LAMBDA Y :
    Bind(mean(Y), LAMBDA mu :
        [X |-> Vec([i \in 1..Len(Y) |-> Sub(Y[i], mu)]), mu |-> mu]))

\* pls.extractLV
extractLV(X0, Y0) ==
    Bind2(X0, Y0, LAMBDA X, Y :
    Bind(dot(Y, Y), LAMBDA uu :
    Bind(Vec([j \in 1..Len(X[1]) |-> Div(dot(Y, Col(X, j)), uu)]), LAMBDA w0 :
    Bind(Sqrt(dot(w0, w0)), LAMBDA ww :
    Bind(Vec([j \in 1..Len(X[1]) |-> Div(w0[j], ww)]), LAMBDA w :
    Bind(Vec([i \in 1..Len(X) |-> dot(w, X[i])]), LAMBDA t :
    Bind(dot(t, t), LAMBDA tt :
        [t |-> t,
         p |-> Vec([j \in 1..Len(X[1]) |-> Div(dot(t, Col(X, j)), tt)]),
         w |-> w,
         c |-> Div(dot(t, Y), tt)])))))))

\* pls.computeSS
computeSS(X0, Y0) ==
    Bind2(X0, Y0, LAMBDA X, Y :
    Bind(Vec([i \in 1..Len(X) |-> dot(X[i], X[i])]), LAMBDA d :
        [SSX |-> SumSeq(d),
         SSY |-> SumSeq(Vec([i \in 1..Len(Y) |-> Square(Y[i])])),
         d |-> d]))

\* pls.deflateLV (in place on the arrays it is given; the callers pass
\* working copies, see build and validateLOO)
deflateLV(X0, Y0, t, p, c) ==
    Bind2(X0, Y0, LAMBDA X, Y :
        [X |-> Vec([i \in 1..Len(X) |-> VecSub(X[i], VecScale(p, t[i]))]),
         Y |-> Vec([i \in 1..Len(Y) |-> Sub(Y[i], Mul(t[i], c))])])

(***************************************************************************)
(* Bounds of the model and the data the callers supply                     *)
(***************************************************************************)
\* the per-LV lists are not allowed to grow beyond MaxLV entries
MaxLV == 2
\* LV counts asked of validateLOO and project: 0..MaxA
MaxA == 2
\* targetA of build: 0..MaxTargetA
MaxTargetA == 2

None == <<>>

\* the training set a caller reads (readData) and hands to build: nobj = 3,
\* nvarx = 2, of rank 2, so that two LVs can be extracted from it
Datasets ==
    { [X |-> IntMat(<< <<0, 0>>, <<2, 0>>, <<0, 2>> >>), Y |-> IntVec(<<0, 1, 2>>)] }

\* query vectors a caller owns
Queries == { IntVec(<<1, 1>>), IntVec(<<2, 0>>), IntVec(<<-1, 3>>) }

\* the stop criteria a caller gives build, <<targetA, targetSSX>>: a number
\* of LVs, a fraction of SSX to explain, or neither (the defaults 0 and 0.0)
Targets == { <<k, Zero>> : k \in 0..MaxTargetA } \cup { <<0, Num(1, 2, 1)>> }

(***************************************************************************)
(* State                                                                   *)
(***************************************************************************)
VARIABLES
    self,      \* the fields of the pls object in use
    callerX,   \* the matrix the caller passed to build; self.X refers to it
    callerY,   \* the vector the caller passed to build; self.Y refers to it
    file,      \* the model file, a stream of np.save records, or None
    pc,        \* "idle", or "build" while build's loop runs
    loc,       \* the locals of the running build
    ret,       \* what the last finished call was given and returned
    given,     \* history: the values of X and Y at the call of build
    saved,     \* history: the fields of the object saveModel wrote
    touched    \* history: project has overwritten a row of callerX

vars == <<self, callerX, callerY, file, pc, loc, ret, given, saved, touched>>

\* a reference to the caller's array, as stored by self.X = X
RefX == <<"callerX">>
RefY == <<"callerY">>

\* pls.__init__
NewPls ==
    [X |-> None, Y |-> None, Am |-> 0, Av |-> 0, nobj |-> 0, nvarx |-> 0,
     mux |-> None, muy |-> None,
     t |-> <<>>, p |-> <<>>, w |-> <<>>, c |-> <<>>,
     SSXex |-> <<>>, SSXac |-> <<>>, SSYex |-> <<>>, SSYac |-> <<>>,
     SDEC |-> <<>>, dmodx |-> <<>>,
     SSY |-> <<>>, SDEP |-> <<>>, Q2 |-> <<>>,
     \* whether self.SSY is a numpy.ndarray (after validateLOO) or a list
     SSYnd |-> FALSE]

PerLV == {"t", "p", "w", "c", "SSXex", "SSXac", "SSYex", "SSYac", "SDEC", "dmodx"}
PerCV == {"SSY", "SDEP", "Q2"}

NoRet == [op |-> "none"]

Init ==
    /\ self = NewPls
    /\ callerX = None
    /\ callerY = None
    /\ file = None
    /\ pc = "idle"
    /\ loc = None
    /\ ret = NoRet
    /\ given = None
    /\ saved = None
    /\ touched = FALSE

(***************************************************************************)
(* build                                                                   *)
(***************************************************************************)
\* build, up to the loop: stores the shape and the caller's arrays (by
\* reference), centers copies of them and initialises the accumulators
buildEnter(s, X, Y, targetA, targetSSX) ==
    Bind2(centerX(X), centerY(Y), LAMBDA cx, cy :
    Bind(computeSS(cx.X, cy.X), LAMBDA ss :
        [self |-> [s EXCEPT !.nobj = Len(X), !.nvarx = Len(X[1]),
                            !.X = RefX, !.Y = RefY,
                            !.mux = cx.mu, !.muy = cy.mu],
         loc  |-> [X |-> cx.X, Y |-> cy.X, nobj |-> Len(X), nvarx |-> Len(X[1]),
                   SSXac |-> Zero, SSYac |-> Zero,
                   SSX0 |-> ss.SSX, SSY0 |-> ss.SSY,
                   SSXold |-> ss.SSX, SSYold |-> ss.SSY,
                   a |-> 0, targetA |-> targetA, targetSSX |-> targetSSX]]))

\* the degrees of freedom build divides dmodx by; a counts from 0
dofBuild(nvarx, a) == IF nvarx - a <= 0 THEN 1 ELSE nvarx - a

\* one pass of build's loop body, up to a += 1
buildBody(s, l) ==
    Bind(extractLV(l.X, l.Y), LAMBDA lv :
    Bind(deflateLV(l.X, l.Y, lv.t, lv.p, lv.c), LAMBDA df :
    Bind(computeSS(df.X, df.Y), LAMBDA ss :
    Bind2(Div(Sub(l.SSXold, ss.SSX), l.SSX0),
          Div(Sub(l.SSYold, ss.SSY), l.SSY0), LAMBDA SSXex, SSYex :
    Bind2(Add(l.SSXac, SSXex), Add(l.SSYac, SSYex), LAMBDA SSXac, SSYac :
    Bind2(Sqrt(Div(ss.SSY, Whole(l.nobj))), dofBuild(l.nvarx, l.a), LAMBDA SDEC, dof :
    Bind(Vec([i \in 1..Len(ss.d) |-> Sqrt(Div(ss.d[i], Whole(dof)))]), LAMBDA dmodx :
        [self |-> [s EXCEPT !.t = Append(@, lv.t), !.p = Append(@, lv.p),
                            !.w = Append(@, lv.w), !.c = Append(@, lv.c),
                            !.SSXex = Append(@, SSXex), !.SSXac = Append(@, SSXac),
                            !.SSYex = Append(@, SSYex), !.SSYac = Append(@, SSYac),
                            !.SDEC = Append(@, SDEC), !.dmodx = Append(@, dmodx)],
         loc  |-> [l EXCEPT !.X = df.X, !.Y = df.Y,
                            !.SSXac = SSXac, !.SSYac = SSYac,
                            !.SSXold = ss.SSX, !.SSYold = ss.SSY,
                            !.a = l.a + 1]])))))))

\* the two stop criteria tested after a += 1
breakLoopOff(a, targetA, SSXac, targetSSX) ==
    \/ targetA > 0 /\ a > targetA
    \/ Gt(targetSSX, Zero) /\ Gt(SSXac, targetSSX)

breakLoop(a, targetA, SSXac, targetSSX) ==
    \/ targetA > 0 /\ a = targetA
    \/ Gt(targetSSX, Zero) /\ Gt(SSXac, targetSSX)

\* a caller reads a training set and calls build(X, Y, targetA, targetSSX)
Build(d, targetA, targetSSX) ==
    /\ pc = "idle"
    /\ targetA > 0 => Len(self.t) + targetA <= MaxLV
    /\ \E e \in {buildEnter(self, d.X, d.Y, targetA, targetSSX)} :
           /\ self' = e.self
           /\ loc' = e.loc
    /\ callerX' = d.X
    /\ callerY' = d.Y
    /\ given' = d
    /\ touched' = FALSE
    /\ pc' = "build"
    /\ ret' = NoRet
    /\ UNCHANGED <<file, saved>>

\* one iteration of build's loop; on break, build stores Am and returns
BuildIter ==
    /\ pc = "build"
    /\ Len(self.t) < MaxLV
    /\ \E b \in {buildBody(self, loc)} :
           IF breakLoop(b.loc.a, loc.targetA, b.loc.SSXac, loc.targetSSX)
           THEN /\ self' = [b.self EXCEPT !.Am = b.loc.a]
                /\ pc' = "idle"
                /\ loc' = None
                /\ ret' = [op |-> "build", targetA |-> loc.targetA,
                           targetSSX |-> loc.targetSSX, iters |-> b.loc.a]
           ELSE /\ self' = b.self
                /\ loc' = b.loc
                /\ UNCHANGED <<pc, ret>>
    /\ UNCHANGED <<callerX, callerY, file, given, saved, touched>>

\* the caller constructs another pls object and uses it from here on
New ==
    /\ pc = "idle"
    /\ self' = NewPls
    /\ given' = None
    /\ ret' = NoRet
    /\ UNCHANGED <<callerX, callerY, file, pc, loc, saved, touched>>

(***************************************************************************)
(* validateLOO                                                             *)
(***************************************************************************)
\* getLOO's loop from LV index a (counted from 0) on; y is the prediction
\* vector so far, X, Y, x the working copies deflated so far
RECURSIVE getLOOFrom(_, _, _, _, _, _)
getLOOFrom(X, Y, x, y, a, A) ==
    IF a >= A THEN y
    ELSE Bind(extractLV(X, Y), LAMBDA lv :
         Bind2(IF a > 0 THEN [y EXCEPT ![a + 1] = y[a]] ELSE y,
               dot(x, lv.w), LAMBDA y0, tt :
         Bind2([y0 EXCEPT ![a + 1] = Add(@, Mul(tt, lv.c))],
               VecSub(x, VecScale(lv.p, tt)), LAMBDA y1, x1 :
         Bind(deflateLV(X, Y, lv.t, lv.p, lv.c), LAMBDA df :
             getLOOFrom(df.X, df.Y, x1, y1, a + 1, A)))))

\* pls.getLOO
getLOO(X, Y, x, A) == getLOOFrom(X, Y, x, zeros(A), 0, A)

\* the squared errors of the fold that leaves object i out, for 1..A LVs
looFold(X, Y, i, A) ==
    Bind2(centerX(delete(X, i)), centerY(delete(Y, i)), LAMBDA cxr, cyr :
    Bind(VecSub(X[i], cxr.mu), LAMBDA xp :
    Bind(getLOO(cxr.X, cyr.X, xp, A), LAMBDA yp0 :
    Bind(Vec([a \in 1..A |-> Add(yp0[a], cyr.mu)]), LAMBDA yp :
        Vec([a \in 1..A |-> Square(Sub(yp[a], Y[i]))])))))

\* SSY after the folds of objects 1..n
RECURSIVE looSSY(_, _, _, _)
looSSY(X, Y, n, A) ==
    IF n = 0 THEN zeros(A)
    ELSE Bind2(looSSY(X, Y, n - 1, A), looFold(X, Y, n, A), LAMBDA acc, e :
             Vec([a \in 1..A |-> Add(acc[a], e[a])]))

\* the guard of validateLOO: self.X == None or self.Y == None (python 2 and
\* the numpy of its time: an ndarray compared with None is False)
noTrainingData(s) == s.X = None \/ s.Y = None

\* validateLOO past its guard, on the object s, whose X and Y refer to the
\* arrays X, Y
validateLOOBody(s, A, X, Y) ==
    Bind2(Len(X), mean(Y), LAMBDA nobj, my :
    Bind2(SumSeq(Vec([i \in 1..nobj |-> Square(Sub(Y[i], my))])),
          looSSY(X, Y, nobj, A), LAMBDA SSY0, SSY :
        [s EXCEPT !.SSY = SSY,
                  !.SDEP = Vec([a \in 1..A |-> Sqrt(Div(SSY[a], Whole(nobj)))]),
                  !.Q2 = Vec([a \in 1..A |-> Sub(One, Div(SSY[a], SSY0))]),
                  !.Av = A,
                  !.SSYnd = TRUE]))

validateLOOAvFirst(s, A, X, Y) ==
    IF noTrainingData(s) THEN [s EXCEPT !.Av = A] ELSE validateLOOBody(s, A, X, Y)

\* pls.validateLOO
validateLOO(s, A, X, Y) ==
    IF noTrainingData(s) THEN s ELSE validateLOOBody(s, A, X, Y)

ValidateLOO(A) ==
    /\ pc = "idle"
    /\ self' = validateLOO(self, A, callerX, callerY)
    /\ ret' = [op |-> "validateLOO", A |-> A, ran |-> ~noTrainingData(self)]
    /\ UNCHANGED <<callerX, callerY, file, pc, loc, given, saved, touched>>

(***************************************************************************)
(* project                                                                 *)
(***************************************************************************)
\* the degrees of freedom project divides by; a counts from 0
dofProjectFromOne(nvarx, a) == IF nvarx - (a + 1) <= 0 THEN 1 ELSE nvarx - (a + 1)

dofProject(nvarx, a) == IF nvarx - a <= 0 THEN 1 ELSE nvarx - a

\* the check on the number of LVs asked for
tooManyLVOffByOne(A, Am) == A > Am + 1

tooManyLV(A, Am) == A > Am

\* project's loop from LV index a (counted from 0) on; self.w[a] past the
\* end of the list raises IndexError, x being already changed in place
RECURSIVE projectFrom(_, _, _, _, _, _, _)
projectFrom(s, x, y, t, d, a, A) ==
    IF a >= A THEN [ok |-> TRUE, x |-> x, y |-> y, t |-> t, d |-> d]
    ELSE IF a + 1 > Len(s.w) THEN [ok |-> FALSE, x |-> x, y |-> y, t |-> t, d |-> d]
    ELSE Bind(dot(x, s.w[a + 1]), LAMBDA ta :
         Bind2([y EXCEPT ![a + 1] = Add(@, Mul(ta, s.c[a + 1]))],
               VecSub(x, VecScale(s.p[a + 1], ta)), LAMBDA y1, x1 :
         Bind2(dofProject(s.nvarx, a), [t EXCEPT ![a + 1] = ta], LAMBDA dof, t1 :
         Bind([d EXCEPT ![a + 1] = Sqrt(Div(dot(x1, x1), Whole(dof)))], LAMBDA d1 :
             projectFrom(s, x1, y1, t1, d1, a + 1, A)))))

\* pls.project: the value returned (None when an exception leaves the call)
\* and the contents of the caller's vector x afterwards (x -= ... works in
\* place on the array passed in)
project(s, x, A) ==
    IF tooManyLV(A, s.Am) THEN [ok |-> TRUE, val |-> <<FALSE, "Too many LV">>, x |-> x]
    ELSE IF s.mux = None
    THEN \* x -= None raises TypeError before x is changed
         [ok |-> FALSE, val |-> None, x |-> x]
    ELSE Bind(projectFrom(s, VecSub(x, s.mux), zeros(A), zeros(A), zeros(A), 0, A),
              LAMBDA r :
         Bind(Vec([a \in 1..A |-> Add(r.y[a], s.muy)]), LAMBDA y :
             IF r.ok THEN [ok |-> TRUE, val |-> <<TRUE, <<y, r.t, r.d>>>>, x |-> r.x]
             ELSE [ok |-> FALSE, val |-> None, x |-> r.x]))

\* project on a vector the caller owns
Project(x, A) ==
    /\ pc = "idle"
    /\ \E r \in {project(self, x, A)} :
           ret' = [op |-> "project", A |-> A, x |-> x, xafter |-> r.x,
                   ok |-> r.ok, val |-> r.val, row |-> 0]
    /\ UNCHANGED <<self, callerX, callerY, file, pc, loc, given, saved, touched>>

\* project on x = X[i,:], a view of row i of the matrix passed to build; the
\* model follows the caller up to the first row that project overwrites
ProjectRow(i, A) ==
    /\ pc = "idle"
    /\ i \in DOMAIN callerX
    /\ ~touched
    /\ \E r \in {project(self, callerX[i], A)} :
           /\ ret' = [op |-> "project", A |-> A, x |-> callerX[i], xafter |-> r.x,
                      ok |-> r.ok, val |-> r.val, row |-> i]
           /\ callerX' = [callerX EXCEPT ![i] = r.x]
           /\ touched' = (r.x # callerX[i])
    /\ UNCHANGED <<self, callerY, file, pc, loc, given, saved>>

(***************************************************************************)
(* saveModel and loadModel                                                 *)
(***************************************************************************)
\* the order in which saveModel writes the per-LV values of one LV
SaveLVOrder == <<"t", "p", "w", "c", "SSXex", "SSXac", "SSYex", "SSYac", "SDEC", "dmodx">>
\* the order in which saveModel writes the per-CV values of one LV
SaveCVOrder == <<"SSY", "SDEP", "Q2">>

\* the order in which loadModel reads the per-LV values of one LV
LoadLVOrderSwapped == <<"t", "w", "p", "c", "SSXex", "SSXac", "SSYex", "SSYac", "SDEC", "dmodx">>

LoadLVOrder == <<"t", "p", "w", "c", "SSXex", "SSXac", "SSYex", "SSYac", "SDEC", "dmodx">>
\* the order in which loadModel reads the per-CV values of one LV
LoadCVOrder == <<"SSY", "SDEP", "Q2">>

\* the header fields, in the order saveModel writes and loadModel reads them
Header == <<"Am", "Av", "nobj", "nvarx", "mux", "muy">>

\* the accesses of two nested loops: for a in range(n), each field of order
RECURSIVE Loop(_, _)
Loop(n, order) ==
    IF n <= 0 THEN <<>>
    ELSE Loop(n - 1, order) \o Vec([k \in 1..Len(order) |-> <<order[k], n>>])

\* the number of accesses of plan done before the first that fails, bad
\* being the places of the accesses that fail
Done(plan, bad) ==
    IF bad = {} THEN Len(plan) ELSE (CHOOSE k \in bad : \A j \in bad : k <= j) - 1

\* saveModel's writes in its two loops; self.t[a] past the end of a list
\* raises IndexError, the records before it being already in the file
saveLoops(s, plan) ==
    Bind(Done(plan, {k \in 1..Len(plan) : plan[k][2] > Len(s[plan[k][1]])}), LAMBDA n :
        Vec([k \in 1..n |-> s[plan[k][1]][plan[k][2]]]))

\* pls.saveModel: the records np.save writes, in order
saveModel(s) ==
    Bind(Loop(s.Am, SaveLVOrder) \o Loop(s.Av, SaveCVOrder), LAMBDA plan :
        Vec([k \in 1..Len(Header) |-> s[Header[k]]]) \o saveLoops(s, plan))

\* the number of records of a file saveModel wrote completely
FullLength(s) == Len(Header) + s.Am * Len(SaveLVOrder) + s.Av * Len(SaveCVOrder)

\* the records of f that the first n accesses of plan read for the field g,
\* in the order read
recordsOf(f, plan, n, g) ==
    Bind({k \in 1..n : plan[k][1] = g}, LAMBDA K :
        Vec([i \in 1..Cardinality(K) |->
                f[CHOOSE k \in K : Cardinality({j \in K : j < k}) = i - 1]]))

\* loadModel's reads: the header fields are assigned, the others appended to
\* the list the object holds.  np.load at the end of the file raises, and so
\* does self.SSY.append when self.SSY is the ndarray validateLOO stored; the
\* fields read before stay set.
loadReads(s, f, plan) ==
    Bind(Done(plan, {k \in 1..Len(plan) :
                        (plan[k][1] \in PerCV /\ s.SSYnd) \/ k > Len(f)}), LAMBDA n :
        [self |-> [g \in DOMAIN s |->
                      IF g \in PerLV \cup PerCV THEN s[g] \o recordsOf(f, plan, n, g)
                      ELSE Bind(recordsOf(f, plan, n, g), LAMBDA r :
                               IF r = <<>> THEN s[g] ELSE r[1])],
         ok |-> n = Len(plan)])

\* pls.loadModel
loadModel(s, f) ==
    Bind(Vec([k \in 1..Len(Header) |-> <<Header[k], 0>>])
         \o Loop(f[1], LoadLVOrder) \o Loop(f[2], LoadCVOrder), LAMBDA plan :
        loadReads(s, f, plan))

\* the file is written once in a run
SaveModel ==
    /\ pc = "idle"
    /\ file = None
    /\ \E f \in {saveModel(self)} :
           /\ file' = f
           /\ ret' = [op |-> "saveModel", ok |-> (Len(f) = FullLength(self))]
    /\ saved' = self
    /\ UNCHANGED <<self, callerX, callerY, pc, loc, given, touched>>

LoadModel ==
    /\ pc = "idle"
    /\ file # None
    /\ Len(self.t) + file[1] <= MaxLV
    /\ \E r \in {loadModel(self, file)} :
           /\ self' = r.self
           /\ ret' = [op |-> "loadModel", fresh |-> (self = NewPls), ok |-> r.ok]
    /\ UNCHANGED <<callerX, callerY, file, pc, loc, given, saved, touched>>

(***************************************************************************)
(* The program                                                             *)
(***************************************************************************)
\* A caller that fits, validates, saves and reloads models, as the __main__
\* block of pls.py does up to its projections
Next ==
    \/ New
    \/ \E d \in Datasets, tg \in Targets : Build(d, tg[1], tg[2])
    \/ BuildIter
    \/ \E A \in 0..MaxA : ValidateLOO(A)
    \/ SaveModel
    \/ LoadModel

Spec == Init /\ [][Next]_vars

\* A caller that fits, saves and reloads models.  build's loop runs to its
\* break: nothing else runs in the process
NextBuild ==
    \/ New
    \/ \E d \in Datasets, tg \in Targets : Build(d, tg[1], tg[2])
    \/ BuildIter
    \/ SaveModel
    \/ LoadModel

FairSpec == Init /\ [][NextBuild]_vars /\ WF_vars(BuildIter)

\* A caller that fits a model and projects vectors of its own as well as
\* rows X[i,:] of the matrix it passed to build
NextProject ==
    \/ \E d \in Datasets, tg \in Targets : Build(d, tg[1], tg[2])
    \/ BuildIter
    \/ \E x \in Queries, A \in 0..MaxA + 1 : Project(x, A)
    \/ \E i \in DOMAIN callerX, A \in 0..MaxA + 1 : ProjectRow(i, A)

ProjectSpec == Init /\ [][NextProject]_vars

\* The same caller, cross-validating the model between the projections
NextValidate ==
    \/ NextProject
    \/ \E A \in 0..MaxA : ValidateLOO(A)

ValidateSpec == Init /\ [][NextValidate]_vars

(***************************************************************************)
(* Properties                                                              *)
(***************************************************************************)
\* the per-LV lists hold Am entries and the per-CV lists Av entries
Lengths(s) ==
    /\ \A g \in PerLV : Len(s[g]) = s.Am
    /\ \A g \in PerCV : Len(s[g]) = s.Av

\* the last finished call is a project call that returned (True, (y, t, d))
Projected == ret.op = "project" /\ ret.ok /\ ret.val[1] = TRUE

\* the input x centered by mux and deflated by LVs 1..k of the model s
RECURSIVE Deflated(_, _, _)
Deflated(s, x, k) ==
    IF k = 0 THEN VecSub(x, s.mux)
    ELSE Bind(Deflated(s, x, k - 1), LAMBDA e :
             VecSub(e, VecScale(s.p[k], dot(e, s.w[k]))))

\* score_k: the dot product of the input deflated by LVs 1..k-1 with weight k
Score(s, x, k) == dot(Deflated(s, x, k - 1), s.w[k])

\* muy plus the sum over k = 1..a of score_k * c_k
RECURSIVE Cumulative(_, _, _)
Cumulative(s, x, a) ==
    IF a = 0 THEN s.muy
    ELSE Add(Cumulative(s, x, a - 1), Mul(Score(s, x, a), s.c[a]))

\* the norm of the input deflated by LVs 1..a over dof degrees of freedom
Distance(s, x, a, dof) ==
    Bind(Deflated(s, x, a), LAMBDA e : Sqrt(Div(dot(e, e), Whole(dof))))

Max(a, b) == IF a >= b THEN a ELSE b

\* C1: a successful project(x, A), 1 <= A <= Am, returns y of length A with
\* y[a] = muy + sum over k = 1..a of score_k * c_k for every a in 1..A
C1_ProjectCumulative ==
    (Projected /\ 1 <= ret.A /\ ret.A <= self.Am) =>
        /\ Len(ret.val[2][1]) = ret.A
        /\ \A a \in 1..ret.A : ret.val[2][1][a] = Cumulative(self, ret.x, a)

\* C2: project(x, A) with A > Am returns (False, 'Too many LV') and changes
\* neither the caller's vector x nor any field of the model
C2_TooManyLVRejected ==
    [][(ret'.op = "project" /\ ret'.A > self.Am) =>
           /\ ret'.ok
           /\ ret'.val = <<FALSE, "Too many LV">>
           /\ ret'.xafter = ret'.x
           /\ self' = self
           /\ callerX' = callerX
           /\ callerY' = callerY]_vars

\* C2 happens: a row of the training matrix of a fitted model was projected
\* with more LVs than the model has, and the call was rejected
C2_Witness ==
    /\ ret.op = "project"
    /\ ret.A > self.Am
    /\ self.Am >= 1
    /\ ret.row >= 1
    /\ ret.val = <<FALSE, "Too many LV">>

\* C3: build(X, Y, targetA = k), k >= 1, targetSSX = 0, runs k iterations
\* and leaves Am = k and k entries in each of the ten per-LV lists
C3_BuildTargetA ==
    (pc = "idle" /\ ret.op = "build" /\ ret.targetA >= 1 /\ ret.targetSSX = Zero) =>
        /\ ret.iters = ret.targetA
        /\ self.Am = ret.targetA
        /\ \A g \in PerLV : Len(self[g]) = ret.targetA

\* the fields saveModel writes
RoundTripFields == {"Am", "Av", "nobj", "nvarx", "mux", "muy"} \cup PerLV \cup PerCV

\* a fitted model: built from training data, its lists as long as Am and Av
Fitted(s) == s.X # None /\ s.Am >= 1 /\ Lengths(s)

\* C4: saveModel of a fitted model followed by loadModel into a newly
\* constructed object reproduces Am, Av, nobj, nvarx, mux, muy, the ten
\* per-LV lists and the three per-CV lists
C4_SaveLoadRoundTrip ==
    (ret.op = "loadModel" /\ ret.fresh /\ Fitted(saved)) =>
        /\ ret.ok
        /\ \A g \in RoundTripFields : self[g] = saved[g]

\* C4 happens: a model of two LVs, cross-validated, was saved and then
\* loaded into a new object
C4_Witness ==
    /\ ret.op = "loadModel"
    /\ ret.fresh
    /\ Fitted(saved)
    /\ saved.Am >= 2
    /\ saved.Av >= 1
    /\ self.Am = saved.Am
    /\ Len(self.t) = 2

\* C5: Av <= Am after every call
C5_AvAtMostAm == pc = "idle" => self.Av <= self.Am

\* C6: after every completed call Am >= 0, the ten per-LV lists have Am
\* entries and the three per-CV lists have Av entries
C6_LengthsMatch == pc = "idle" => (self.Am >= 0 /\ Lengths(self))

\* C7: validateLOO(A) on an object without training data changes no field of
\* the object, and nothing else
C7_ValidateNoData ==
    [][(ret'.op = "validateLOO" /\ noTrainingData(self)) =>
           /\ self' = self
           /\ callerX' = callerX
           /\ callerY' = callerY
           /\ file' = file]_vars

\* C7 happens: validateLOO(A), A >= 1, was called on an object that holds a
\* model read by loadModel and no training data
C7_Witness ==
    /\ ret.op = "validateLOO"
    /\ ret.A >= 1
    /\ self.X = None
    /\ self.Am >= 1

\* C8 as claimed: the distance project reports for LV number a, a = 1..A, is
\* the norm of the input deflated by LVs 1..a over max(nvarx - a, 1)
C8_DivisorCountsFromOne ==
    Projected =>
        \A a \in 1..ret.A :
            ret.val[2][3][a] = Distance(self, ret.x, a, Max(self.nvarx - a, 1))

\* C8 amended: the distance project reports for LV number a, a = 1..A, is
\* the norm of the input deflated by LVs 1..a over max(nvarx - (a - 1), 1)
C8_DivisorCountsFromZero ==
    Projected =>
        \A a \in 1..ret.A :
            ret.val[2][3][a] = Distance(self, ret.x, a, Max(self.nvarx - (a - 1), 1))

\* C8 happens: project returned the distances for two LVs, the first of them
\* a positive number
C8_Witness ==
    /\ Projected
    /\ ret.A = 2
    /\ Gt(ret.val[2][3][1], Zero)

\* C9: after build, the stored X and Y equal the arrays passed to build and
\* mux, muy their means, whatever validateLOO and project calls followed
C9_TrainingDataKept ==
    (pc = "idle" /\ self.X = RefX) =>
        /\ callerX = given.X
        /\ callerY = given.Y
        /\ self.mux = centerX(given.X).mu
        /\ self.muy = centerY(given.Y).mu

\* C10: with targetA = 0 and targetSSX = 0.0 build's loop never leaves; with
\* targetA = k >= 1 it leaves, after at most k iterations
C10_BuildTermination ==
    /\ [][(pc = "build" /\ loc.targetA = 0 /\ loc.targetSSX = Zero) => pc' = "build"]_vars
    /\ []((pc = "build" /\ loc.targetA >= 1) => loc.a < loc.targetA)
    /\ []((ret.op = "build" /\ ret.targetA >= 1) => ret.iters <= ret.targetA)
    /\ ((pc = "build" /\ loc.targetA >= 1) ~> (pc = "idle"))

\* C10 happens: a build without stop criterion is past its second iteration
C10_Witness ==
    /\ pc = "build"
    /\ loc.targetA = 0
    /\ loc.targetSSX = Zero
    /\ loc.a >= 2

====
